---- MODULE Spec2Model ----
(***************************************************************************)
(* Data-management layer of the auto-parts shop tool (src/main.py):        *)
(* DatabaseManager (schema, seeding, transactions) and ProductManager      *)
(* (catalog, relation graph, sales ledger), plus the statistics computed   *)
(* by SalesHistoryWindow.update_statistics.                                *)
(*                                                                         *)
(* The store is the SQLite file: four tables and the AUTOINCREMENT         *)
(* counters of sqlite_sequence.  Every connection is opened by             *)
(* sqlite3.connect with default settings, so the foreign_keys pragma is    *)
(* off and the FOREIGN KEY clauses of the schema are not enforced; CHECK,  *)
(* UNIQUE and NOT NULL are.                                                *)
(*                                                                         *)
(* Prices and amounts reach the store as float(...) and are read back as   *)
(* Python numbers (no converter is registered), so they are modelled as    *)
(* IEEE-754 binary64 values: exact dyadic rationals m * 2^e, computed with *)
(* round-to-nearest-even.  TLC's integers are 32 bits wide, so mantissas   *)
(* are kept as little-endian sequences of 15-bit limbs.                    *)
(***************************************************************************)
EXTENDS Integers, Sequences, FiniteSets, TLC

(***************************************************************************)
(* Natural numbers of arbitrary size: little-endian limb sequences without *)
(* high zero limbs; <<>> is zero.                                          *)
(***************************************************************************)
LimbBits == 14 + 1

Base == 2 ^ LimbBits

Pow2(n) == 2 ^ n

RECURSIVE BTrim(_)
BTrim(a) ==
    IF a = <<>> THEN <<>>
    ELSE IF a[Len(a)] = 0 THEN BTrim(SubSeq(a, 1, Len(a) - 1))
    ELSE a

RECURSIVE BFromInt(_)
BFromInt(n) ==
    IF n = 0 THEN <<>> ELSE <<n % Base>> \o BFromInt(n \div Base)

RECURSIVE BAddC(_, _, _)
BAddC(a, b, c) ==
    IF a = <<>> /\ b = <<>> THEN (IF c = 0 THEN <<>> ELSE <<c>>)
    ELSE LET x == IF a = <<>> THEN 0 ELSE Head(a)
             y == IF b = <<>> THEN 0 ELSE Head(b)
             s == x + y + c
         IN  <<s % Base>> \o BAddC(IF a = <<>> THEN <<>> ELSE Tail(a),
                                   IF b = <<>> THEN <<>> ELSE Tail(b),
                                   s \div Base)

BAdd(a, b) == BAddC(a, b, 0)

RECURSIVE BMulC(_, _, _)
BMulC(a, k, c) ==
    IF a = <<>> THEN BFromInt(c)
    ELSE LET s == Head(a) * k + c
         IN  <<s % Base>> \o BMulC(Tail(a), k, s \div Base)

\* a * k for 0 <= k < Base
BMulS(a, k) == BTrim(BMulC(a, k, 0))

RECURSIVE BDivRem(_, _)
\* quotient and remainder of a by k, 0 < k < Base (the quotient untrimmed)
BDivRem(a, k) ==
    IF a = <<>> THEN [q |-> <<>>, r |-> 0]
    ELSE LET hi  == BDivRem(Tail(a), k)
             cur == hi.r * Base + Head(a)
         IN  [q |-> <<cur \div k>> \o hi.q, r |-> cur % k]

BDivS(a, k) == BTrim(BDivRem(a, k).q)

BModS(a, k) == BDivRem(a, k).r

Zeros(n) == [i \in 1..n |-> 0]

\* a * 2^n
BShl(a, n) ==
    IF a = <<>> THEN <<>>
    ELSE BMulS(Zeros(n \div LimbBits) \o a, Pow2(n % LimbBits))

\* floor(a / 2^n)
BShr(a, n) ==
    IF Len(a) <= n \div LimbBits THEN <<>>
    ELSE BDivS(SubSeq(a, (n \div LimbBits) + 1, Len(a)), Pow2(n % LimbBits))

RECURSIVE SmallBitLen(_)
SmallBitLen(n) == IF n = 0 THEN 0 ELSE 1 + SmallBitLen(n \div 2)

BitLen(a) ==
    IF a = <<>> THEN 0
    ELSE LimbBits * (Len(a) - 1) + SmallBitLen(a[Len(a)])

BIsOdd(a) == a # <<>> /\ a[1] % 2 = 1

(***************************************************************************)
(* binary64 values >= 0 as canonical dyadic rationals [m, e]: the value is *)
(* m * 2^e with m odd, or m = <<>>, e = 0 for zero.  Two values are equal  *)
(* as numbers iff their records are equal.  The magnitudes of the model    *)
(* stay far from the subnormal and overflow ranges.                        *)
(***************************************************************************)
MantBits == 53

FZero == [m |-> <<>>, e |-> 0]

RECURSIVE Canon(_, _)
Canon(m, e) ==
    IF m = <<>> THEN FZero
    ELSE IF m[1] = 0 THEN Canon(Tail(m), e + LimbBits)
    ELSE IF m[1] % 2 = 0 THEN Canon(BShr(m, 1), e + 1)
    ELSE [m |-> m, e |-> e]

\* n * 2^e rounded to a 53-bit mantissa, ties to even
RoundNearestEven(n, e) ==
    LET len == BitLen(n)
    IN  IF len <= MantBits THEN Canon(n, e)
        ELSE LET drop   == len - MantBits
                 q      == BShr(n, drop)
                 q2     == BShr(n, drop - 1)
                 half   == BIsOdd(q2)
                 sticky == BShl(q2, drop - 1) # n
                 up     == half /\ (sticky \/ BIsOdd(q))
             IN  Canon(IF up THEN BAdd(q, <<1>>) ELSE q, e + drop)

GuardBits == MantBits + 17

\* n * 2^e / k correctly rounded, k >= 1: the quotient keeps GuardBits extra
\* bits and a sticky bit for the remainder
RoundQuotient(n, e, k) ==
    IF n = <<>> THEN FZero
    ELSE LET d   == BDivRem(BShl(n, GuardBits), k)
             q2  == BShl(BTrim(d.q), 1)
             q2s == IF d.r = 0 THEN q2 ELSE BAdd(q2, <<1>>)
         IN  RoundNearestEven(q2s, e - GuardBits - 1)

(***************************************************************************)
(* The numeric conversions and operations of the code.  A price handed to  *)
(* save_product is a Decimal with two places, written in cents             *)
(* ([kind |-> "decimal", cents |-> c]), or a number read back from the     *)
(* store ([kind |-> "float", val |-> x]).                                  *)
(***************************************************************************)
Dec(c) == [kind |-> "decimal", cents |-> c]

Flt(x) == [kind |-> "float", val |-> x]

\* float(Decimal) for a Decimal of c >= 0 cents: the binary64 nearest c/100
FloatOfCents(c) == RoundQuotient(BFromInt(c), 0, 100)

\* -x for x > 0: a negative binary64 value carries the field neg
FNeg(x) == [m |-> x.m, e |-> x.e, neg |-> TRUE]

FIsNegative(x) == "neg" \in DOMAIN x

\* float(product.price)
ToFloat(price) ==
    IF price.kind = "decimal"
    THEN IF price.cents < 0 THEN FNeg(FloatOfCents(0 - price.cents))
         ELSE FloatOfCents(price.cents)
    ELSE price.val

IsNegative(price) == FIsNegative(ToFloat(price))

\* product.price * quantity on a stored price, quantity >= 0
FMulInt(x, k) == RoundNearestEven(BMulS(x.m, k), x.e)

\* x + y in binary64
FAdd(x, y) ==
    LET lo == IF x.e < y.e THEN x.e ELSE y.e
    IN  RoundNearestEven(BAdd(BShl(x.m, x.e - lo), BShl(y.m, y.e - lo)), lo)

\* x / k in binary64, k >= 1
FDivInt(x, k) == RoundQuotient(x.m, x.e, k)

RECURSIVE BToInt(_)
BToInt(a) == IF a = <<>> THEN 0 ELSE Head(a) + Base * BToInt(Tail(a))

\* f"{x:.2f}" for x >= 0, as a number of hundredths: the decimal of two
\* places nearest the exact value of x, ties to even
Format2f(x) ==
    LET n == BMulS(x.m, 100)
    IN  IF x.e >= 0 THEN BToInt(BShl(n, x.e))
        ELSE LET drop   == 0 - x.e
                 q      == BShr(n, drop)
                 q2     == BShr(n, drop - 1)
                 half   == BIsOdd(q2)
                 sticky == BShl(q2, drop - 1) # n
                 up     == half /\ (sticky \/ BIsOdd(q))
             IN  BToInt(IF up THEN BAdd(q, <<1>>) ELSE q)

\* the number x is exactly c/100 (what == between a float and a Decimal
\* decides): 100 * m * 2^e = c
EqualsCents(x, c) ==
    /\ c >= 0
    /\ IF x.e >= 0 THEN BMulS(BShl(x.m, x.e), 100) = BFromInt(c)
       ELSE BMulS(x.m, 100) = BShl(BFromInt(c), 0 - x.e)

(***************************************************************************)
(* Bounds of the model.                                                    *)
(***************************************************************************)
\* calls of the data layer made after the construction of DatabaseManager
MaxCalls == 2

(***************************************************************************)
(* Values.  None is Python's None / SQL NULL where an integer is expected, *)
(* NoName where a string is; no identifier or name of the model takes      *)
(* these values.                                                           *)
(***************************************************************************)
None == 0 - 1

NoName == "None"

\* Python truthiness of an id: `if product.id:', `if manufacturer_id:'
Truthy(x) == x # None /\ x # 0

Returned(v) == [raised |-> "", value |-> v]

Raised(exc) == [raised |-> exc, value |-> None]

VARIABLES
    manufacturers,      \* table manufacturers: rows [id, name]
    products,           \* table products: rows [id, name, price, description,
                        \*   image_path, manufacturer_id, is_active]
    product_relations,  \* table product_relations: rows [id, main_product_id,
                        \*   related_product_id]
    sales_history,      \* table sales_history: rows [id, product_id, quantity,
                        \*   total_amount, customer_info]
    sqlite_sequence,    \* AUTOINCREMENT counters, one per table
    last,               \* the latest call: [op, args, result]
    calls               \* number of calls made since construction

vars == <<manufacturers, products, product_relations, sales_history,
          sqlite_sequence, last, calls>>

tables == <<manufacturers, products, product_relations, sales_history,
            sqlite_sequence>>

\* the created_at, updated_at and sale_date columns hold wall-clock times that
\* no operation of the data layer reads back into a decision; they are left out.

(***************************************************************************)
(* Seed data of _insert_sample_data.  The model seeds the first two of the *)
(* ten manufacturers, the first two of the ten products (name, price in    *)
(* cents, description, manufacturer_id) and the relations among those two  *)
(* products; names and descriptions are transliterated.                    *)
(***************************************************************************)
SeedManufacturerNames == <<"Toyota", "Honda">>

SeedProductList ==
    << <<"Maslo motornoe 5W-30", 250000, "Sinteticheskoe motornoe maslo", 1>>,
       <<"Vozdushnyi filtr", 120000, "Vozdushnyi filtr salona", 1>> >>

SeedRelationList == << <<1, 2>> >>

\* customer_info of the seed sales, one per seed sale: the model seeds the
\* first of the fifty
SeedCustomerList == <<"Klient 1">>

SeedRows == Len(SeedProductList)

(***************************************************************************)
(* The statements of the data layer as functions of the tables.            *)
(***************************************************************************)
\* a schema without CHECK(main_product_id != related_product_id)
RelationInsertFailsNoCheck(rel, main, related) ==
    \E r \in rel : r.main_product_id = main /\ r.related_product_id = related

\* a schema without UNIQUE(main_product_id, related_product_id)
RelationInsertFailsNoUnique(rel, main, related) == main = related

\* product_relations has UNIQUE(main_product_id, related_product_id) and
\* CHECK(main_product_id != related_product_id); its FOREIGN KEY clauses are
\* not enforced.  TRUE iff the INSERT raises sqlite3.IntegrityError.
RelationInsertFails(rel, main, related) ==
    \/ main = related
    \/ \E r \in rel : r.main_product_id = main /\ r.related_product_id = related

RelationRow(id, main, related) ==
    [id |-> id, main_product_id |-> main, related_product_id |-> related]

\* a delete that forgets the related_product_id side
DeleteRelationsOfMainOnly(rel, product_id) ==
    {r \in rel : r.main_product_id # product_id}

\* DELETE FROM product_relations WHERE main_product_id = ? OR related_product_id = ?
DeleteRelationsOf(rel, product_id) ==
    {r \in rel : ~(r.main_product_id = product_id \/ r.related_product_id = product_id)}

RECURSIVE MaxId(_)
MaxId(ids) ==
    IF ids = {} THEN 0
    ELSE LET i == CHOOSE x \in ids : TRUE
             m == MaxId(ids \ {i})
         IN  IF i > m THEN i ELSE m

\* the rowid of a table without AUTOINCREMENT: one more than the largest
\* stored id
NextProductIdByRowid(seq, prods) == MaxId({x.id : x \in prods}) + 1

\* id INTEGER PRIMARY KEY AUTOINCREMENT: one more than the largest id the
\* table ever held, which sqlite_sequence keeps
NextProductId(seq, prods) == seq + 1

\* DELETE FROM products WHERE id = ?
DeleteProductRow(prods, product_id) == {p \in prods : p.id # product_id}

\* DELETE FROM product_relations WHERE id = ?
DeleteRelationRow(rel, relation_id) == {r \in rel : r.id # relation_id}

\* the row an INSERT or UPDATE of save_product writes: float(product.price),
\* the other fields as given
ProductRow(id, product) ==
    [id |-> id, name |-> product.name, price |-> ToFloat(product.price),
     description |-> product.description, image_path |-> product.image_path,
     manufacturer_id |-> product.manufacturer_id, is_active |-> product.is_active]

\* UPDATE products SET ... WHERE id = ?
\* an update that inserts the row when no row has the id
UpdateOrInsertProductRow(prods, product) ==
    {p \in prods : p.id # product.id} \cup {ProductRow(product.id, product)}

UpdateProductRow(prods, product) ==
    {IF p.id = product.id THEN ProductRow(p.id, product) ELSE p : p \in prods}

\* a table without CHECK(price >= 0)
PriceCheckNever(product) == FALSE

\* CHECK(price >= 0) on a row being written
PriceCheckFails(product) == IsNegative(product.price)

SaleRow(id, product_id, quantity, total_amount, customer_info) ==
    [id |-> id, product_id |-> product_id, quantity |-> quantity,
     total_amount |-> total_amount, customer_info |-> customer_info]

\* an insert that replaces the earlier sales of the same product
InsertSaleReplacing(sales, row) ==
    {s \in sales : s.product_id # row.product_id} \cup {row}

\* INSERT INTO sales_history
InsertSale(sales, row) == sales \cup {row}

(***************************************************************************)
(* Queries of ProductManager.  A result list is modelled as the set of its *)
(* rows: ORDER BY is not modelled.                                         *)
(***************************************************************************)
\* m.name of LEFT JOIN manufacturers m ON p.manufacturer_id = m.id
ManufacturerName(mans, manufacturer_id) ==
    IF \E m \in mans : m.id = manufacturer_id
    THEN (CHOOSE m \in mans : m.id = manufacturer_id).name
    ELSE NoName

\* a count of the edges that end at the product
RelatedCountIncoming(rel, product_id) ==
    Cardinality({r \in rel : r.related_product_id = product_id})

\* (SELECT COUNT(*) FROM product_relations pr WHERE pr.main_product_id = p.id)
RelatedCount(rel, product_id) ==
    Cardinality({r \in rel : r.main_product_id = product_id})

\* a products row as Product(**dict(row)) of the two catalog queries
Decorated(p, mans, rel) ==
    [id |-> p.id, name |-> p.name, price |-> p.price, description |-> p.description,
     image_path |-> p.image_path, manufacturer_id |-> p.manufacturer_id,
     is_active |-> p.is_active,
     manufacturer_name |-> ManufacturerName(mans, p.manufacturer_id),
     related_products_count |-> RelatedCount(rel, p.id)]

ManufacturerFilter(prods, manufacturer_id) ==
    IF Truthy(manufacturer_id)
    THEN {p \in prods : p.manufacturer_id = manufacturer_id}
    ELSE prods

get_all_products(manufacturer_id) ==
    {Decorated(p, manufacturers, product_relations) :
        p \in ManufacturerFilter(products, manufacturer_id)}

\* a lookup that falls back on the whole table when no row has the id
ProductByIdOrAny(prods, mans, rel, product_id) ==
    IF \E x \in prods : x.id = product_id
    THEN {Decorated(p, mans, rel) : p \in {x \in prods : x.id = product_id}}
    ELSE {Decorated(p, mans, rel) : p \in prods}

\* the rows fetchone() chooses from: empty (the call returns None) or one row
ProductById(prods, mans, rel, product_id) ==
    {Decorated(p, mans, rel) : p \in {x \in prods : x.id = product_id}}

get_product_by_id(product_id) ==
    ProductById(products, manufacturers, product_relations, product_id)

\* the join without AND p.is_active = TRUE
RelatedRowsAnyTarget(rel, prods, product_id) ==
    {[id |-> r.id, main_product_id |-> r.main_product_id,
      related_product_id |-> r.related_product_id,
      related_product |-> [id |-> r.related_product_id, name |-> p.name,
                           price |-> p.price, description |-> "",
                           image_path |-> p.image_path, manufacturer_id |-> 0,
                           is_active |-> p.is_active]] :
        <<r, p>> \in {x \in rel \X prods :
                        /\ x[1].related_product_id = x[2].id
                        /\ x[1].main_product_id = product_id}}

\* product_relations JOIN products p ON pr.related_product_id = p.id
\* WHERE pr.main_product_id = ? AND p.is_active = TRUE
RelatedRows(rel, prods, product_id) ==
    {[id |-> r.id, main_product_id |-> r.main_product_id,
      related_product_id |-> r.related_product_id,
      related_product |-> [id |-> r.related_product_id, name |-> p.name,
                           price |-> p.price, description |-> "",
                           image_path |-> p.image_path, manufacturer_id |-> 0,
                           is_active |-> p.is_active]] :
        <<r, p>> \in {x \in rel \X prods :
                        /\ x[1].related_product_id = x[2].id
                        /\ x[1].main_product_id = product_id
                        /\ x[2].is_active}}

get_related_products(product_id) ==
    RelatedRows(product_relations, products, product_id)

\* the query without the NOT IN clause
AvailableRowsLinkedToo(rel, prods, product_id) ==
    {p \in prods : p.id # product_id /\ p.is_active}

\* WHERE p.id != ? AND p.is_active = TRUE AND p.id NOT IN
\* (SELECT related_product_id FROM product_relations WHERE main_product_id = ?)
AvailableRows(rel, prods, product_id) ==
    {p \in prods :
        /\ p.id # product_id
        /\ p.is_active
        /\ p.id \notin {r.related_product_id :
                          r \in {x \in rel : x.main_product_id = product_id}}}

get_available_products_for_relation(product_id) ==
    {[id |-> p.id, name |-> p.name, price |-> p.price, description |-> p.description,
      image_path |-> p.image_path, manufacturer_id |-> p.manufacturer_id,
      is_active |-> p.is_active,
      manufacturer_name |-> ManufacturerName(manufacturers, p.manufacturer_id)] :
        p \in AvailableRows(product_relations, products, product_id)}

\* sales_history sh JOIN products p ON sh.product_id = p.id [WHERE sh.product_id = ?]
SalesRows(sales, prods, product_id) ==
    {[id |-> s.id, product_id |-> s.product_id, quantity |-> s.quantity,
      total_amount |-> s.total_amount, customer_info |-> s.customer_info,
      product_name |-> p.name] :
        <<s, p>> \in {x \in sales \X prods :
                        /\ x[1].product_id = x[2].id
                        /\ (Truthy(product_id) => x[1].product_id = product_id)}}

get_sales_history(product_id) == SalesRows(sales_history, products, product_id)

(***************************************************************************)
(* DatabaseManager.init_database and _insert_sample_data on a store        *)
(* st = [manufacturers, products, product_relations, sales_history,        *)
(* sqlite_sequence].  CREATE TABLE IF NOT EXISTS changes nothing on an     *)
(* existing table.  rnd is the sequence of the random draws                *)
(* [product_id, quantity] of the seed sales.                               *)
(***************************************************************************)
EmptyStore ==
    [manufacturers |-> {}, products |-> {}, product_relations |-> {},
     sales_history |-> {},
     sqlite_sequence |-> [manufacturers |-> 0, products |-> 0,
                          product_relations |-> 0, sales_history |-> 0]]

Store ==
    [manufacturers |-> manufacturers, products |-> products,
     product_relations |-> product_relations, sales_history |-> sales_history,
     sqlite_sequence |-> sqlite_sequence]

RECURSIVE InsertManufacturers(_, _)
\* INSERT OR IGNORE INTO manufacturers (name): name is UNIQUE.  The id of an
\* AUTOINCREMENT table is taken, and sqlite_sequence advanced, before the
\* constraint is checked: an ignored row leaves the counter advanced.
InsertManufacturers(st, i) ==
    IF i > Len(SeedManufacturerNames) THEN st
    ELSE LET id == st.sqlite_sequence.manufacturers + 1
         IN  IF \E m \in st.manufacturers : m.name = SeedManufacturerNames[i]
             THEN InsertManufacturers(
                      [st EXCEPT !.sqlite_sequence.manufacturers = id], i + 1)
             ELSE InsertManufacturers(
                      [st EXCEPT !.manufacturers =
                                     @ \cup {[id |-> id,
                                              name |-> SeedManufacturerNames[i]]},
                                 !.sqlite_sequence.manufacturers = id],
                      i + 1)

RECURSIVE InsertSeedProducts(_, _)
InsertSeedProducts(st, i) ==
    IF i > SeedRows THEN st
    ELSE LET id  == NextProductId(st.sqlite_sequence.products, st.products)
             row == SeedProductList[i]
         IN  InsertSeedProducts(
                 [st EXCEPT !.products =
                                @ \cup {[id |-> id, name |-> row[1],
                                         price |-> FloatOfCents(row[2]),
                                         description |-> row[3], image_path |-> "",
                                         manufacturer_id |-> row[4],
                                         is_active |-> TRUE]},
                            !.sqlite_sequence.products = id],
                 i + 1)

RECURSIVE InsertSeedRelations(_, _)
\* INSERT OR IGNORE INTO product_relations: an ignored row leaves
\* sqlite_sequence advanced, as for manufacturers
InsertSeedRelations(st, i) ==
    IF i > Len(SeedRelationList) THEN st
    ELSE LET main    == SeedRelationList[i][1]
             related == SeedRelationList[i][2]
             id      == st.sqlite_sequence.product_relations + 1
         IN  IF RelationInsertFails(st.product_relations, main, related)
             THEN InsertSeedRelations(
                      [st EXCEPT !.sqlite_sequence.product_relations = id], i + 1)
             ELSE InsertSeedRelations(
                      [st EXCEPT !.product_relations =
                                     @ \cup {RelationRow(id, main, related)},
                                 !.sqlite_sequence.product_relations = id],
                      i + 1)

RECURSIVE InsertSeedSales(_, _, _)
\* price = SELECT price ... .fetchone()[0] raises TypeError when the drawn id
\* has no row; total_amount = price * quantity
InsertSeedSales(res, rnd, i) ==
    IF i > Len(rnd) \/ res.raised # "" THEN res
    ELSE LET st    == res.store
             found == {p \in st.products : p.id = rnd[i].product_id}
             id    == st.sqlite_sequence.sales_history + 1
         IN  IF found = {} THEN [res EXCEPT !.raised = "TypeError"]
             ELSE InsertSeedSales(
                      [res EXCEPT
                          !.store.sales_history =
                              InsertSale(@, SaleRow(id, rnd[i].product_id,
                                                    rnd[i].quantity,
                                                    FMulInt((CHOOSE p \in found : TRUE).price,
                                                            rnd[i].quantity),
                                                    SeedCustomerList[i])),
                          !.store.sqlite_sequence.sales_history = id],
                      rnd, i + 1)

\* [store, raised]: the store the transaction of init_database leaves (the
\* store as it was when the transaction is rolled back) and the exception, if
\* any, that leaves DatabaseManager.__init__
InsertSampleData(st, rnd) ==
    IF st.products # {} THEN [store |-> st, raised |-> ""]
    ELSE LET filled == InsertSeedRelations(
                           InsertSeedProducts(InsertManufacturers(st, 1), 1), 1)
             done   == IF filled.sales_history = {}
                       THEN InsertSeedSales([store |-> filled, raised |-> ""], rnd, 1)
                       ELSE [store |-> filled, raised |-> ""]
         IN  IF done.raised = "" THEN done ELSE [store |-> st, raised |-> done.raised]

\* quantities of a sale: random.randint(1, 5) for the seed sales, the
\* quantity argument of add_sale
QuantityArgs == {2, 3}

\* random.randint(1, 10), the ids of the ten seed products, and the quantity
SeedDraws ==
    [1..Len(SeedCustomerList) -> [product_id : 1..SeedRows, quantity : QuantityArgs]]

SetStore(st) ==
    /\ manufacturers' = st.manufacturers
    /\ products' = st.products
    /\ product_relations' = st.product_relations
    /\ sales_history' = st.sales_history
    /\ sqlite_sequence' = st.sqlite_sequence

SetStoreInit(st) ==
    /\ manufacturers = st.manufacturers
    /\ products = st.products
    /\ product_relations = st.product_relations
    /\ sales_history = st.sales_history
    /\ sqlite_sequence = st.sqlite_sequence

Call(op, args, result) == [op |-> op, args |-> args, result |-> result]

\* the store after DatabaseManager(db_name) on a fresh file
Init ==
    \E rnd \in SeedDraws :
        LET done == InsertSampleData(EmptyStore, rnd)
        IN  /\ SetStoreInit(done.store)
            /\ last = Call("init_database", <<>>,
                           IF done.raised = "" THEN Returned(None)
                           ELSE Raised(done.raised))
            /\ calls = 0

\* DatabaseManager(db_name) again on the file (the next start of the program)
InitDatabase ==
    \E rnd \in SeedDraws :
        LET done == InsertSampleData(Store, rnd)
        IN  /\ SetStore(done.store)
            /\ last' = Call("init_database", <<>>,
                            IF done.raised = "" THEN Returned(None)
                            ELSE Raised(done.raised))

(***************************************************************************)
(* Arguments of the calls.                                                 *)
(***************************************************************************)
\* ids handed to the operations: stored, deleted and never assigned ones
ProductIdArgs == 1..(SeedRows + 1)

RelationIdArgs == 1..(Len(SeedRelationList) + 2)

NameArgs == {"Test"}

\* Decimal("99.99"), the price of test_sales_history
PriceArgs == {Dec(9999)}

ManufacturerArgs == {None, 2}

CustomerArgs == {"Testovyi klient"}

\* Product(...) as a caller builds it
ProductArgs ==
    {[id |-> id, name |-> n, price |-> c, description |-> "", image_path |-> "",
      manufacturer_id |-> m, is_active |-> a] :
        id \in {0} \cup ProductIdArgs, n \in NameArgs, c \in PriceArgs,
        m \in ManufacturerArgs, a \in BOOLEAN}

\* Product(...) that a caller of the data layer can build and the form never
\* does: a negative price, an empty name, a manufacturer_id of no stored
\* manufacturer (one past the seed manufacturers)
InvalidProductArgs ==
    LET base(id) == [id |-> id, name |-> "Test", price |-> Dec(9999),
                     description |-> "", image_path |-> "",
                     manufacturer_id |-> None, is_active |-> TRUE]
    IN  {[base(id) EXCEPT !.price = Dec(0 - 100)] : id \in {0} \cup ProductIdArgs}
        \cup {[base(id) EXCEPT !.name = ""] : id \in {0, 1}}
        \cup {[base(id) EXCEPT !.manufacturer_id = Len(SeedManufacturerNames) + 1] :
                 id \in {0, 1}}

\* quantities handed to add_sale: those of QuantityArgs, zero and a negative one
SaleQuantityArgs == QuantityArgs \cup {0, 0 - 1}

\* a product as get_product_by_id returned it, handed back to save_product as
\* it is or with the active flag switched
FetchedArgs ==
    UNION {{[p EXCEPT !.price = Flt(p.price)],
            [p EXCEPT !.price = Flt(p.price), !.is_active = ~p.is_active]} :
              p \in UNION {get_product_by_id(id) : id \in ProductIdArgs}}

(***************************************************************************)
(* The write operations of ProductManager, each inside get_connection():   *)
(* commit on return, rollback and re-raise on an exception.                *)
(***************************************************************************)
\* NOT NULL on name, CHECK(price >= 0): the statement raises IntegrityError
ProductConstraintFails(product) ==
    product.name = NoName \/ PriceCheckFails(product)

save_product(product) ==
    IF Truthy(product.id)
    THEN IF (\E p \in products : p.id = product.id) /\ ProductConstraintFails(product)
         THEN /\ UNCHANGED tables
              /\ last' = Call("save_product", <<product>>, Raised("IntegrityError"))
         ELSE /\ products' = UpdateProductRow(products, product)
              /\ UNCHANGED <<manufacturers, product_relations, sales_history,
                             sqlite_sequence>>
              /\ last' = Call("save_product", <<product>>, Returned(product.id))
    ELSE IF ProductConstraintFails(product)
    THEN /\ UNCHANGED tables
         /\ last' = Call("save_product", <<product>>, Raised("IntegrityError"))
    ELSE LET id == NextProductId(sqlite_sequence.products, products)
         IN  /\ products' = products \cup {ProductRow(id, product)}
             /\ sqlite_sequence' = [sqlite_sequence EXCEPT !.products = id]
             /\ UNCHANGED <<manufacturers, product_relations, sales_history>>
             /\ last' = Call("save_product", <<product>>, Returned(id))

delete_product(product_id) ==
    /\ product_relations' = DeleteRelationsOf(product_relations, product_id)
    /\ products' = DeleteProductRow(products, product_id)
    /\ UNCHANGED <<manufacturers, sales_history, sqlite_sequence>>
    /\ last' = Call("delete_product", <<product_id>>, Returned(None))

\* an insert that stores the reverse edge along with the edge
add_related_product_symmetric(main_product_id, related_product_id) ==
    IF RelationInsertFails(product_relations, main_product_id, related_product_id)
    THEN /\ UNCHANGED tables
         /\ last' = Call("add_related_product",
                         <<main_product_id, related_product_id>>, Returned(None))
    ELSE LET id == sqlite_sequence.product_relations + 1
         IN  /\ product_relations' =
                    product_relations \cup
                        {RelationRow(id, main_product_id, related_product_id),
                         RelationRow(id + 1, related_product_id, main_product_id)}
             /\ sqlite_sequence' = [sqlite_sequence EXCEPT !.product_relations = id + 1]
             /\ UNCHANGED <<manufacturers, products, sales_history>>
             /\ last' = Call("add_related_product",
                             <<main_product_id, related_product_id>>, Returned(id))

add_related_product(main_product_id, related_product_id) ==
    IF RelationInsertFails(product_relations, main_product_id, related_product_id)
    THEN \* except sqlite3.IntegrityError: return None
         /\ UNCHANGED tables
         /\ last' = Call("add_related_product",
                         <<main_product_id, related_product_id>>, Returned(None))
    ELSE LET id == sqlite_sequence.product_relations + 1
         IN  /\ product_relations' =
                    product_relations \cup
                        {RelationRow(id, main_product_id, related_product_id)}
             /\ sqlite_sequence' = [sqlite_sequence EXCEPT !.product_relations = id]
             /\ UNCHANGED <<manufacturers, products, sales_history>>
             /\ last' = Call("add_related_product",
                             <<main_product_id, related_product_id>>, Returned(id))

remove_related_product(relation_id) ==
    /\ product_relations' = DeleteRelationRow(product_relations, relation_id)
    /\ UNCHANGED <<manufacturers, products, sales_history, sqlite_sequence>>
    /\ last' = Call("remove_related_product", <<relation_id>>, Returned(None))

\* total_amount = product.price * quantity on the price get_product_by_id reads
SaleTotal(price, quantity) ==
    IF quantity < 0 THEN FNeg(FMulInt(price, 0 - quantity))
    ELSE FMulInt(price, quantity)

\* a table without CHECK(quantity > 0)
QuantityCheckNever(quantity) == FALSE

\* CHECK(quantity > 0) on a row being written
QuantityCheckFails(quantity) == quantity <= 0

\* add_sale without "if not product: raise ValueError": the sale of a
\* product that is not stored is inserted with a total of zero
add_sale_unchecked(product_id, quantity, customer_info) ==
    LET id == sqlite_sequence.sales_history + 1
    IN  /\ sales_history' =
               InsertSale(sales_history,
                          SaleRow(id, product_id, quantity, FZero, customer_info))
        /\ sqlite_sequence' = [sqlite_sequence EXCEPT !.sales_history = id]
        /\ UNCHANGED <<manufacturers, products, product_relations>>
        /\ last' = Call("add_sale", <<product_id, quantity, customer_info>>,
                        Returned(id))

add_sale(product_id, quantity, customer_info) ==
    LET found == get_product_by_id(product_id)
    IN  IF found = {}
        THEN /\ UNCHANGED tables
             /\ last' = Call("add_sale", <<product_id, quantity, customer_info>>,
                             Raised("ValueError"))
        ELSE IF QuantityCheckFails(quantity)
        THEN \* sqlite3.IntegrityError leaves the with block
             /\ UNCHANGED tables
             /\ last' = Call("add_sale", <<product_id, quantity, customer_info>>,
                             Raised("IntegrityError"))
        ELSE LET id    == sqlite_sequence.sales_history + 1
                 total == SaleTotal((CHOOSE p \in found : TRUE).price, quantity)
             IN  /\ sales_history' =
                        InsertSale(sales_history,
                                   SaleRow(id, product_id, quantity, total, customer_info))
                 /\ sqlite_sequence' = [sqlite_sequence EXCEPT !.sales_history = id]
                 /\ UNCHANGED <<manufacturers, products, product_relations>>
                 /\ last' = Call("add_sale", <<product_id, quantity, customer_info>>,
                                 Returned(id))

SaveProduct ==
    \E product \in ProductArgs \cup InvalidProductArgs \cup FetchedArgs :
        save_product(product)

DeleteProduct == \E id \in ProductIdArgs : delete_product(id)

AddRelatedProduct ==
    \E main \in ProductIdArgs, related \in ProductIdArgs :
        add_related_product(main, related)

RemoveRelatedProduct == \E id \in RelationIdArgs : remove_related_product(id)

AddSale ==
    \E id \in ProductIdArgs, quantity \in SaleQuantityArgs, info \in CustomerArgs :
        add_sale(id, quantity, info)

\* one more call, while the model's budget of calls lasts
Step == calls < MaxCalls /\ calls' = calls + 1

Next ==
    \/ Step /\ InitDatabase
    \/ Step /\ SaveProduct
    \/ Step /\ DeleteProduct
    \/ Step /\ AddRelatedProduct
    \/ Step /\ RemoveRelatedProduct
    \/ Step /\ AddSale

Spec == Init /\ [][Next]_vars

(***************************************************************************)
(* SalesHistoryWindow.update_statistics on a list of SalesHistory objects  *)
(* (their quantity and total_amount): the three numbers it formats into    *)
(* the labels.  sum() starts from the integer 0 and adds from left to      *)
(* right, each addition of floats rounded.                                 *)
(***************************************************************************)
RECURSIVE SumQuantity(_)
SumQuantity(sales) ==
    IF sales = <<>> THEN 0
    ELSE SumQuantity(SubSeq(sales, 1, Len(sales) - 1)) + sales[Len(sales)].quantity

RECURSIVE SumRevenue(_)
SumRevenue(sales) ==
    IF sales = <<>> THEN FZero
    ELSE FAdd(SumRevenue(SubSeq(sales, 1, Len(sales) - 1)),
              sales[Len(sales)].total_amount)

AverageSale(total_revenue, count) ==
    IF count # 0 THEN FDivInt(total_revenue, count) ELSE FZero

\* the three sums, and the texts of the labels: the count, and the two
\* amounts in hundredths
update_statistics(sales) ==
    LET total_quantity == SumQuantity(sales)
        total_revenue  == SumRevenue(sales)
        avg_sale       == AverageSale(total_revenue, Len(sales))
    IN  [total_quantity |-> total_quantity,
         total_revenue |-> total_revenue,
         avg_sale |-> avg_sale,
         total_sales_label |-> total_quantity,
         total_revenue_label |-> Format2f(total_revenue),
         avg_sale_label |-> Format2f(avg_sale)]

\* longest list of sales handed to update_statistics
MaxStatSales == 3

\* total_amount values as add_sale stores them, for Decimal prices 99.99 and
\* 2500.00
StatRows ==
    {[quantity |-> q, total_amount |-> SaleTotal(FloatOfCents(c), q)] :
        q \in QuantityArgs, c \in {9999, 250000}}

StatArgs == UNION {[1..n -> StatRows] : n \in 0..MaxStatSales}

Pending == Raised("pending")

\* the store as constructed, and update_statistics called on some list
StatsInit ==
    /\ \E rnd \in SeedDraws : SetStoreInit(InsertSampleData(EmptyStore, rnd).store)
    /\ \E sales \in StatArgs : last = Call("update_statistics", <<sales>>, Pending)
    /\ calls = 0

UpdateStatistics ==
    /\ last.op = "update_statistics"
    /\ last.result.raised = "pending"
    /\ last' = [last EXCEPT !.result = Returned(update_statistics(last.args[1]))]
    /\ calls' = calls + 1
    /\ UNCHANGED tables

SpecStats == StatsInit /\ [][UpdateStatistics]_vars

(***************************************************************************)
(* The behaviours that empty the catalog and start the program again: the  *)
(* calls of Spec that delete products, add edges and run init_database,    *)
(* followed further than the call budget of Spec allows.                   *)
(***************************************************************************)
MaxReseedCalls == 4

StepReseed == calls < MaxReseedCalls /\ calls' = calls + 1

NextReseed ==
    \/ StepReseed /\ InitDatabase
    \/ StepReseed /\ DeleteProduct
    \/ StepReseed /\ AddRelatedProduct

SpecReseed == Init /\ [][NextReseed]_vars

(***************************************************************************)
(* Storage failures.  A statement of a write operation can raise           *)
(* sqlite3.OperationalError (disk I/O error, database is locked, ...): the  *)
(* exception leaves the with block of get_connection, which calls          *)
(* conn.rollback() and raises it again.  partial is the store as the       *)
(* statements before the failing one left it inside the transaction.       *)
(***************************************************************************)
\* a handler that keeps what the transaction did so far
RollbackNothing(before, partial) == partial

\* except Exception: conn.rollback(); raise
Rollback(before, partial) == before

FailedCall(op, args, partial) ==
    /\ SetStore(Rollback(Store, partial))
    /\ last' = Call(op, args, Raised("OperationalError"))

\* statements of delete_product: 1 deletes the edges, 2 the product row
DeleteStatements == {1, 2}

save_product_failing(product) == FailedCall("save_product", <<product>>, Store)

delete_product_failing(product_id, k) ==
    FailedCall("delete_product", <<product_id>>,
               IF k = 1 THEN Store
               ELSE [Store EXCEPT !.product_relations =
                                      DeleteRelationsOf(product_relations, product_id)])

\* OperationalError is not an IntegrityError: the except clause lets it pass
add_related_product_failing(main_product_id, related_product_id) ==
    FailedCall("add_related_product", <<main_product_id, related_product_id>>, Store)

remove_related_product_failing(relation_id) ==
    FailedCall("remove_related_product", <<relation_id>>, Store)

\* the INSERT of add_sale is reached only for a stored product
add_sale_failing(product_id, quantity, customer_info) ==
    /\ get_product_by_id(product_id) # {}
    /\ FailedCall("add_sale", <<product_id, quantity, customer_info>>, Store)

SaveProductFails == \E product \in ProductArgs : save_product_failing(product)

DeleteProductFails ==
    \E id \in ProductIdArgs, k \in DeleteStatements : delete_product_failing(id, k)

AddRelatedProductFails ==
    \E main \in ProductIdArgs, related \in ProductIdArgs :
        add_related_product_failing(main, related)

RemoveRelatedProductFails ==
    \E id \in RelationIdArgs : remove_related_product_failing(id)

AddSaleFails ==
    \E id \in ProductIdArgs, quantity \in QuantityArgs, info \in CustomerArgs :
        add_sale_failing(id, quantity, info)

\* calls made in the behaviours with storage failures
MaxFaultCalls == 2

StepFaults == calls < MaxFaultCalls /\ calls' = calls + 1

NextFaults ==
    \/ StepFaults /\ InitDatabase
    \/ StepFaults /\ SaveProduct
    \/ StepFaults /\ DeleteProduct
    \/ StepFaults /\ AddRelatedProduct
    \/ StepFaults /\ RemoveRelatedProduct
    \/ StepFaults /\ AddSale
    \/ StepFaults /\ SaveProductFails
    \/ StepFaults /\ DeleteProductFails
    \/ StepFaults /\ AddRelatedProductFails
    \/ StepFaults /\ RemoveRelatedProductFails
    \/ StepFaults /\ AddSaleFails

SpecFaults == Init /\ [][NextFaults]_vars

(***************************************************************************)
(* Properties.                                                             *)
(***************************************************************************)
Endpoint(r, id) == r.main_product_id = id \/ r.related_product_id = id

HasEdge(rel, main, related) ==
    \E r \in rel : r.main_product_id = main /\ r.related_product_id = related

C1_DeleteStep ==
    last'.op = "delete_product" =>
        LET id == last'.args[1]
        IN  /\ \A r \in product_relations' : ~Endpoint(r, id)
            /\ RelatedRows(product_relations', products', id) = {}
            /\ \A r \in product_relations : ~Endpoint(r, id) => r \in product_relations'
            /\ product_relations' \subseteq product_relations

\* C1: when delete_product(id) has completed, no stored relation edge has id
\* as main_product_id or related_product_id, get_related_products(id) is
\* empty, and the edges between other products are exactly those stored
\* before the call.
C1_DeleteRemovesEdges == [][C1_DeleteStep]_vars

\* add_related_product(2, 3), then delete_product(1): the seeded edge 1 -> 2
\* and product 1 are gone, the edge 2 -> 3 is still stored
C1_Witness ==
    /\ calls = 2
    /\ last.op = "delete_product"
    /\ last.args[1] = 1
    /\ HasEdge(product_relations, 2, 3)
    /\ ~HasEdge(product_relations, 1, 2)
    /\ \A p \in products : p.id # 1

C2_SelfRelationStep ==
    (last'.op = "add_related_product" /\ last'.args[1] = last'.args[2]) =>
        /\ last'.result = Returned(None)
        /\ product_relations' = product_relations

\* C2: add_related_product(a, a) returns None for every product id a, raises
\* nothing, and leaves the stored relation edges unchanged.
C2_SelfRelationRejected == [][C2_SelfRelationStep]_vars

\* add_related_product(1, 1) on a stored product has returned None
C2_Witness ==
    /\ last.op = "add_related_product"
    /\ last.args = <<1, 1>>
    /\ last.result = Returned(None)
    /\ \E p \in products : p.id = 1
    /\ ~HasEdge(product_relations, 1, 1)

NoDuplicatePairs ==
    \A r1, r2 \in product_relations :
        (/\ r1.main_product_id = r2.main_product_id
         /\ r1.related_product_id = r2.related_product_id) => r1 = r2

C3_AddStep ==
    /\ NoDuplicatePairs'
    /\ (last'.op = "add_related_product" /\ last'.args[1] # last'.args[2]) =>
           LET a == last'.args[1]
               b == last'.args[2]
           IN  /\ Cardinality({r \in product_relations' :
                                 r.main_product_id = a /\ r.related_product_id = b}) = 1
               /\ HasEdge(product_relations, a, b) =>
                      /\ last'.result = Returned(None)
                      /\ UNCHANGED tables
               /\ ~HasEdge(product_relations, a, b) =>
                      /\ last'.result.raised = ""
                      /\ last'.result.value # None
                      /\ \A r \in product_relations : r.id # last'.result.value
                      /\ product_relations' =
                             product_relations \cup {RelationRow(last'.result.value, a, b)}

\* C3: for distinct a and b, add_related_product(a, b) with no edge a -> b
\* stored returns a new identity and stores the edge; with the edge stored it
\* returns None and changes nothing; either way exactly one edge with the
\* ordered pair (a, b) is stored afterwards, and in every reachable state no
\* two stored edges have the same ordered pair.
C3_DuplicateRejected == NoDuplicatePairs /\ [][C3_AddStep]_vars

\* add_related_product(2, 3) twice: the first call took identity 2, the
\* second returned None, and one edge 2 -> 3 is stored
C3_Witness ==
    /\ calls = 2
    /\ last.op = "add_related_product"
    /\ last.args = <<2, 3>>
    /\ last.result = Returned(None)
    /\ sqlite_sequence.product_relations = 2
    /\ Cardinality({r \in product_relations :
                      r.main_product_id = 2 /\ r.related_product_id = 3}) = 1

\* Decimal prices (in cents) a product of the model can have been saved with:
\* the seed prices and PriceArgs
ClaimCents == {250000, 120000, 9999}

\* C4: add_sale(p, q, note) on a stored product p priced at c (a Decimal of
\* two places) and q > 0 appends one row with product_id = p, quantity = q
\* and total_amount equal to c * q exactly (99.99 and 2 give 199.98), and
\* get_sales_history(p) returns that row.
C4_SaleTotalExact ==
    (last.op = "add_sale" /\ last.result.raised = "") =>
        LET p   == last.args[1]
            q   == last.args[2]
            sid == last.result.value
        IN  \A c \in ClaimCents :
                (\E x \in products : x.id = p /\ x.price = FloatOfCents(c)) =>
                    /\ Cardinality({s \in sales_history : s.id = sid}) = 1
                    /\ \A s \in sales_history :
                           s.id = sid =>
                               /\ s.product_id = p
                               /\ s.quantity = q
                               /\ EqualsCents(s.total_amount, c * q)
                               /\ \E h \in get_sales_history(p) :
                                      /\ h.id = sid
                                      /\ h.quantity = q
                                      /\ h.total_amount = s.total_amount

C5_LedgerStep == \A s \in sales_history : s \in sales_history'

\* C5: a stored sales_history row is never removed or changed by a later
\* save_product, delete_product, add_related_product, remove_related_product
\* or add_sale (nor by a later init_database); a save_product that changes
\* the price of the sold product leaves the row's total_amount as it was.
C5_LedgerAppendOnly == [][C5_LedgerStep]_vars

\* save_product has set the price of a product with a seed sale to 99.99:
\* the sale still holds quantity times the seed price
C5_Witness ==
    /\ last.op = "save_product"
    /\ last.result.raised = ""
    /\ last.args[1].price = Dec(9999)
    /\ \E s \in sales_history, x \in products :
           /\ x.id = last.args[1].id
           /\ s.product_id = x.id
           /\ x.price = FloatOfCents(9999)
           /\ s.total_amount # SaleTotal(x.price, s.quantity)
           /\ s.total_amount \in {SaleTotal(FloatOfCents(c), s.quantity) :
                                    c \in {250000, 120000}}

RECURSIVE Sigma(_, _)
\* f[1] + ... + f[n] over the integers
Sigma(f, n) == IF n = 0 THEN 0 ELSE f[n] + Sigma(f, n - 1)

Abs(i) == IF i < 0 THEN 0 - i ELSE i

\* x + y as a number, not rounded
FAddExact(x, y) ==
    LET lo == IF x.e < y.e THEN x.e ELSE y.e
    IN  Canon(BAdd(BShl(x.m, x.e - lo), BShl(y.m, y.e - lo)), lo)

RECURSIVE ExactRevenue(_)
\* the sum of the total_amounts of a list of sales as a number
ExactRevenue(sales) ==
    IF sales = <<>> THEN FZero
    ELSE FAddExact(ExactRevenue(SubSeq(sales, 1, Len(sales) - 1)),
                   sales[Len(sales)].total_amount)

\* what the labels of update_statistics show: the count is the sum of the
\* quantities, the revenue with two decimals is the sum of the totals as
\* shown with two decimals, the average with two decimals is within half a
\* hundredth of that sum divided by the number of sales
StatisticsLabels ==
    (last.op = "update_statistics" /\ last.result.raised = "") =>
        LET sales == last.args[1]
            r     == last.result.value
            n     == Len(sales)
            S     == Sigma([i \in 1..n |-> Format2f(sales[i].total_amount)], n)
        IN  /\ r.total_sales_label = Sigma([i \in 1..n |-> sales[i].quantity], n)
            /\ r.total_revenue_label = S
            /\ n = 0 => r.avg_sale_label = 0
            /\ n > 0 => 2 * Abs(n * r.avg_sale_label - S) <= n

\* C6: update_statistics on a list of sales never fails; it yields as total
\* quantity the sum of the quantities, as total revenue the sum of the
\* total_amounts, and as average the total revenue divided by the number of
\* sales; on the empty list it yields 0, 0 and 0.
C6_Statistics ==
    /\ (last.op = "update_statistics" /\ calls > 0) => last.result.raised = ""
    /\ (last.op = "update_statistics" /\ last.result.raised = "") =>
           LET sales == last.args[1]
               r     == last.result.value
               n     == Len(sales)
           IN  /\ r.total_quantity = Sigma([i \in 1..n |-> sales[i].quantity], n)
               /\ r.total_revenue = ExactRevenue(sales)
               /\ n = 0 => /\ r.total_quantity = 0
                           /\ r.total_revenue = FZero
                           /\ r.avg_sale = FZero
               /\ n > 0 => r.avg_sale = FDivInt(r.total_revenue, n)

\* C7: a product saved by save_product (insert or update of a stored row)
\* and fetched by get_product_by_id with the returned identity has the name
\* and exactly the price it was saved with, a Decimal price as well as a
\* price fetched before.
C7_SaveFetchExact ==
    (last.op = "save_product" /\ last.result.raised = "") =>
        \A x \in get_product_by_id(last.result.value) :
            /\ x.name = last.args[1].name
            /\ last.args[1].price.kind = "decimal" =>
                   EqualsCents(x.price, last.args[1].price.cents)
            /\ last.args[1].price.kind = "float" =>
                   x.price = last.args[1].price.val

StoredIds(prods) == {x.id : x \in prods}

ActiveIds(prods) == {x.id : x \in {y \in prods : y.is_active}}

\* C8: get_all_products(m) returns, for every manufacturer id m, exactly the
\* stored products whose manufacturer_id is m, and without a filter every
\* stored product, each once; a returned product has the columns of its
\* row, manufacturer_name equal to the name of its manufacturer (None
\* without one) and related_products_count equal to the number of stored
\* edges whose main_product_id is the product.
C8_ListProducts ==
    \A m \in {None} \cup {x.id : x \in manufacturers} :
        LET listed   == get_all_products(m)
            expected == IF m = None THEN products
                        ELSE {x \in products : x.manufacturer_id = m}
        IN  /\ StoredIds(listed) = StoredIds(expected)
            /\ Cardinality(listed) = Cardinality(expected)
            /\ \A d \in listed :
                   /\ \E x \in expected :
                          /\ x.id = d.id
                          /\ x.name = d.name
                          /\ x.price = d.price
                          /\ x.manufacturer_id = d.manufacturer_id
                          /\ x.is_active = d.is_active
                   /\ \A f \in manufacturers :
                          f.id = d.manufacturer_id => d.manufacturer_name = f.name
                   /\ d.manufacturer_id = None => d.manufacturer_name = NoName
                   /\ d.related_products_count
                          = Cardinality({r \in product_relations :
                                           r.main_product_id = d.id})

\* products of Toyota, of Honda and of no manufacturer are stored, product 1
\* has one outgoing edge, product 2 only an incoming one
C8_Witness ==
    /\ \E d \in get_all_products(2) : d.manufacturer_name = "Honda"
    /\ Cardinality(get_all_products(2)) = 1
    /\ Cardinality(get_all_products(1)) = 2
    /\ Cardinality(get_all_products(None)) = 4
    /\ \E d \in get_all_products(None) :
           d.manufacturer_id = None /\ d.manufacturer_name = NoName
    /\ \E d \in get_all_products(1) : d.id = 1 /\ d.related_products_count = 1
    /\ \E d \in get_all_products(1) : d.id = 2 /\ d.related_products_count = 0

RelatedTargets(rel, prods, p) ==
    {r.related_product_id : r \in RelatedRows(rel, prods, p)}

AvailableIds(rel, prods, p) == StoredIds(AvailableRows(rel, prods, p))

C9_Complement ==
    \A p \in ProductIdArgs \cup StoredIds(products) :
        /\ {a.id : a \in get_available_products_for_relation(p)}
               = AvailableIds(product_relations, products, p)
        /\ {r.related_product_id : r \in get_related_products(p)}
               = RelatedTargets(product_relations, products, p)
        /\ AvailableIds(product_relations, products, p)
               \cap RelatedTargets(product_relations, products, p) = {}
        /\ AvailableIds(product_relations, products, p)
               \cup RelatedTargets(product_relations, products, p)
               = ActiveIds(products) \ {p}

AddedEdge == last.op = "add_related_product" /\ Truthy(last.result.value)

\* add_related_product(p, t) has returned the id of a new edge to a stored
\* product t: t is listed as related to p and is not available for p
C9_AddListsTarget ==
    (AddedEdge /\ last.args[2] \in StoredIds(products)) =>
        /\ last.args[2] \in RelatedTargets(product_relations, products, last.args[1])
        /\ last.args[2] \notin AvailableIds(product_relations, products, last.args[1])

\* remove_related_product of a stored edge p -> t to a stored product t puts
\* t among the products available for p
C9_RemoveStep ==
    last'.op = "remove_related_product" =>
        \A r \in product_relations :
            (r.id = last'.args[1] /\ r.related_product_id \in StoredIds(products)) =>
                r.related_product_id
                    \in AvailableIds(product_relations', products', r.main_product_id)

\* C9 as the specification states it, for stored products t: the two lists
\* are complementary among the active products other than p, every
\* successful add_related_product(p, t) lists t as related to p, and every
\* remove_related_product of an edge p -> t makes t available for p.
C9_AsStated == [](C9_Complement /\ C9_AddListsTarget) /\ [][C9_RemoveStep]_vars

C9_AddStep ==
    (last'.op = "add_related_product" /\ Truthy(last'.result.value)) =>
        LET p == last'.args[1]
            t == last'.args[2]
        IN  /\ t \notin AvailableIds(product_relations', products', p)
            /\ t \in ActiveIds(products) =>
                   /\ t \in AvailableIds(product_relations, products, p)
                   /\ t \in RelatedTargets(product_relations', products', p)

C9_RemoveActiveStep ==
    last'.op = "remove_related_product" =>
        \A r \in product_relations :
            r.id = last'.args[1] =>
                /\ r \notin product_relations'
                /\ r.related_product_id
                       \notin RelatedTargets(product_relations', products', r.main_product_id)
                /\ r.related_product_id \in ActiveIds(products) =>
                       r.related_product_id
                           \in AvailableIds(product_relations', products', r.main_product_id)

\* C9: in every reachable state and for every product id p,
\* get_available_products_for_relation(p) and the targets of
\* get_related_products(p) are disjoint and their union is the set of the
\* active stored products other than p; a successful add_related_product(p, t)
\* takes t out of the available products of p and, when t is an active
\* product, moves it to the related ones; remove_related_product of that
\* edge takes t out of the related ones and, when t is an active product,
\* puts it back among the available ones.
C9_Complementary ==
    [](C9_Complement) /\ [][C9_AddStep /\ C9_RemoveActiveStep]_vars

\* add_related_product(2, 1), then remove_related_product of the new edge 2:
\* product 1 is available for product 2 again, product 2 is still related
\* to product 1
C9_Witness ==
    /\ calls = 2
    /\ last = Call("remove_related_product", <<2>>, Returned(None))
    /\ sqlite_sequence.product_relations = 2
    /\ sqlite_sequence.products = SeedRows
    /\ ActiveIds(products) = {1, 2}
    /\ AvailableIds(product_relations, products, 2) = {1}
    /\ RelatedTargets(product_relations, products, 2) = {}
    /\ RelatedTargets(product_relations, products, 1) = {2}

C10_Listed ==
    \A p \in ProductIdArgs \cup StoredIds(products) :
        /\ {r.id : r \in get_related_products(p)}
               = {r.id : r \in {e \in product_relations :
                                  /\ e.main_product_id = p
                                  /\ e.related_product_id \in ActiveIds(products)}}
        /\ \A r \in get_related_products(p) :
               \E e \in product_relations, x \in products :
                   /\ e.id = r.id
                   /\ e.main_product_id = p
                   /\ e.related_product_id = x.id
                   /\ r.related_product_id = x.id
                   /\ r.related_product.id = x.id
                   /\ r.related_product.name = x.name
                   /\ r.related_product.price = x.price
                   /\ x.is_active

C10_SaveStep ==
    (last'.op = "save_product" /\ last'.result.raised = "") =>
        /\ product_relations' = product_relations
        /\ \A e \in product_relations :
               (e.related_product_id = last'.args[1].id
                    /\ e.related_product_id \in StoredIds(products)) =>
                   (e.id \in {r.id : r \in RelatedRows(product_relations', products',
                                                      e.main_product_id)}
                        <=> last'.args[1].is_active)

\* C10: get_related_products(p) returns exactly the stored edges with
\* main_product_id = p whose target is a stored product that is active, each
\* with the name and price of its target; save_product never changes the
\* stored edges, and after save_product has updated a product the edges that
\* end at it are listed exactly when it was saved active.
C10_RelatedOnlyActive == [](C10_Listed) /\ [][C10_SaveStep]_vars

\* save_product has set product 2 inactive: the edge 1 -> 2 is stored and
\* get_related_products(1) is empty
C10_Witness ==
    /\ last.op = "save_product"
    /\ last.result = Returned(2)
    /\ ~last.args[1].is_active
    /\ HasEdge(product_relations, 1, 2)
    /\ 2 \in StoredIds(products) \ ActiveIds(products)
    /\ get_related_products(1) = {}

C11_SaleStep ==
    (last'.op = "add_sale" /\ last'.args[1] \notin StoredIds(products)) =>
        /\ last'.result = Raised("ValueError")
        /\ UNCHANGED tables

\* C11: add_sale(p, q, note) with p not the id of a stored product raises
\* ValueError (product not found), appends no sale and leaves the five
\* tables as they were, for every q, positive or not.
C11_SaleOfMissingProduct == [][C11_SaleStep]_vars

\* product 1 was deleted, a sale of quantity 0 of it was refused as the sale
\* of a missing product, and so was one of quantity 2 of the never-stored 3
C11_Witness ==
    /\ last.op = "add_sale"
    /\ last.result = Raised("ValueError")
    /\ last.args[1] \notin StoredIds(products)
    /\ \/ last.args[1] = 1 /\ last.args[2] = 0 /\ sqlite_sequence.products = SeedRows
       \/ last.args[1] = SeedRows + 1 /\ last.args[2] = 2
    /\ sqlite_sequence.sales_history = Len(SeedCustomerList)

C12_DeleteStep ==
    last'.op = "delete_product" =>
        ProductById(products', manufacturers', product_relations', last'.args[1]) = {}

\* C12: get_product_by_id(id) returns None, without raising, whenever no
\* product with that id is stored, and the one stored product otherwise; after
\* delete_product(id) it returns None for id, also for an id that
\* save_product created.
C12_GetMissingProduct ==
    [](\A id \in ProductIdArgs \cup {0} :
           IF id \in StoredIds(products)
           THEN \E x \in products : get_product_by_id(id) = {Decorated(x, manufacturers, product_relations)}
                                    /\ x.id = id
           ELSE get_product_by_id(id) = {})
    /\ [][C12_DeleteStep]_vars

\* save_product created product 3 and delete_product(3) removed it:
\* get_product_by_id(3) returns None
C12_Witness ==
    /\ last = Call("delete_product", <<SeedRows + 1>>, Returned(None))
    /\ sqlite_sequence.products = SeedRows + 1
    /\ get_product_by_id(SeedRows + 1) = {}
    /\ Cardinality(products) = SeedRows

WriteOps ==
    {"save_product", "delete_product", "add_related_product",
     "remove_related_product", "add_sale"}

C13_FailedStep ==
    (last'.op \in WriteOps /\ last'.result.raised # "") =>
        /\ UNCHANGED tables
        /\ last'.result.raised \in {"OperationalError", "IntegrityError", "ValueError"}

C13_ReturnedStep ==
    (last'.op \in WriteOps /\ last'.result.raised = "OperationalError") =>
        last'.result = Raised("OperationalError")

\* C13: when a statement of save_product, delete_product,
\* add_related_product, remove_related_product or add_sale raises a storage
\* error, the five tables are left exactly as they were before the call and
\* the exception reaches the caller; a delete_product whose DELETE of the
\* product row fails leaves the relation edges of the product stored.
C13_WritesAtomic == [][C13_FailedStep /\ C13_ReturnedStep]_vars

\* delete_product(1) failed with a storage error: product 1 and its seeded
\* edge 1 -> 2 are stored
C13_Witness ==
    /\ last = Call("delete_product", <<1>>, Raised("OperationalError"))
    /\ 1 \in StoredIds(products)
    /\ HasEdge(product_relations, 1, 2)

\* C14: in every reachable state the main_product_id and the
\* related_product_id of every stored edge are ids of stored products, and
\* an add_related_product(a, b) with a or b not stored creates no edge.
C14_EdgesReferenceProducts ==
    /\ \A r \in product_relations :
           /\ r.main_product_id \in StoredIds(products)
           /\ r.related_product_id \in StoredIds(products)
    /\ (last.op = "add_related_product"
            /\ (last.args[1] \notin StoredIds(products)
                    \/ last.args[2] \notin StoredIds(products))) =>
           /\ last.result = Returned(None)
           /\ ~HasEdge(product_relations, last.args[1], last.args[2])

\* C15: in every reachable state the product_id of every stored sale is the
\* id of a stored product, also after delete_product of a product with sales.
C15_SalesReferenceProducts ==
    \A s \in sales_history : s.product_id \in StoredIds(products)

\* C16: in every reachable state the manufacturer_id of every stored product
\* is None or the id of a stored manufacturer; a save_product with a
\* manufacturer_id of no stored manufacturer does not store that reference.
C16_ProductsReferenceManufacturers ==
    \A x \in products :
        x.manufacturer_id = None \/ x.manufacturer_id \in {f.id : f \in manufacturers}

PricesNonNegative == \A x \in products : ~FIsNegative(x.price)

NegativePriceSaved == last.op = "save_product" /\ IsNegative(last.args[1].price)

\* C17 as the specification states it: every stored price is >= 0, and every
\* save_product with a negative price, insert or update, ends with an error
\* for the caller.
C17_AsStated == PricesNonNegative /\ (NegativePriceSaved => last.result.raised # "")

C17_SaveStep ==
    (last'.op = "save_product" /\ IsNegative(last'.args[1].price)) =>
        /\ UNCHANGED tables
        /\ IF last'.args[1].id = 0 \/ last'.args[1].id \in StoredIds(products)
           THEN last'.result = Raised("IntegrityError")
           ELSE last'.result = Returned(last'.args[1].id)

\* C17: in every reachable state every stored product has price >= 0; a
\* save_product with a negative price that inserts, or that updates a stored
\* product, raises IntegrityError and leaves the tables unchanged; one that
\* carries an id of no stored product writes nothing and returns the id.
C17_PriceNonNegative == [](PricesNonNegative) /\ [][C17_SaveStep]_vars

\* the update of the stored product 1 with price -1.00 was refused: its seed
\* price is still stored
C17_Witness ==
    /\ NegativePriceSaved
    /\ last.args[1].id = 1
    /\ last.result = Raised("IntegrityError")
    /\ \E x \in products : x.id = 1 /\ x.price = FloatOfCents(SeedProductList[1][2])

QuantitiesPositive == \A s \in sales_history : s.quantity > 0

C18_SaleStep ==
    (last'.op = "add_sale" /\ last'.args[2] <= 0
         /\ last'.args[1] \in StoredIds(products)) =>
        /\ last'.result = Raised("IntegrityError")
        /\ UNCHANGED tables

\* C18: add_sale(p, q, note) with q <= 0 on a stored product p raises
\* IntegrityError to the caller and appends no sale (no table changes); in
\* every reachable state every stored sale has quantity > 0.
C18_QuantityPositive == [](QuantitiesPositive) /\ [][C18_SaleStep]_vars

\* a sale of quantity 0 of the stored product 1 was refused after a sale of
\* quantity 2 of it was recorded
C18_Witness ==
    /\ last = Call("add_sale", <<1, 0, "Testovyi klient">>, Raised("IntegrityError"))
    /\ 1 \in StoredIds(products)
    /\ sqlite_sequence.sales_history = Len(SeedCustomerList) + 1
    /\ \E s \in sales_history : s.id = Len(SeedCustomerList) + 1 /\ s.quantity = 2

\* C19: save_product with an empty name ends with a failure for the caller
\* and stores nothing; in every reachable state every stored product has a
\* non-empty name.
C19_NameNonEmpty ==
    /\ \A x \in products : x.name # ""
    /\ (last.op = "save_product" /\ last.args[1].name = "") => last.result.raised # ""

\* rows are added to a table only when the table was empty
SeededOnlyIfEmpty(before, after) == before \subseteq after /\ (after # before => before = {})

C20_InitStep ==
    last'.op = "init_database" =>
        /\ last'.result.raised = ""
        /\ SeededOnlyIfEmpty(manufacturers, manufacturers')
        /\ SeededOnlyIfEmpty(products, products')
        /\ SeededOnlyIfEmpty(product_relations, product_relations')
        /\ SeededOnlyIfEmpty(sales_history, sales_history')
        /\ \A f, g \in manufacturers' : f.name = g.name => f = g
        /\ \A r, q \in product_relations' :
               (r.main_product_id = q.main_product_id
                    /\ r.related_product_id = q.related_product_id) => r = q
        /\ products # {} => UNCHANGED tables

\* C20: init_database run again inserts seed rows into a table only when
\* that table is empty, never produces a duplicate manufacturer, product,
\* relation edge or sale, and leaves a store whose products table is not
\* empty completely unchanged.
C20_InitIdempotent == [][C20_InitStep]_vars

\* a successful add_related_product(a, b) stores the one edge a -> b, leaves
\* the edges from b as they were and the list of b as it was
C21_OneEdgeStep ==
    (last'.op = "add_related_product" /\ Truthy(last'.result.value)) =>
        LET a == last'.args[1]
            b == last'.args[2]
        IN  /\ product_relations' = product_relations \cup {RelationRow(last'.result.value, a, b)}
            /\ Cardinality(product_relations') = Cardinality(product_relations) + 1
            /\ HasEdge(product_relations', b, a) <=> HasEdge(product_relations, b, a)
            /\ RelatedRows(product_relations', products', b)
                   = RelatedRows(product_relations, products, b)

\* add_related_product(b, a) while a -> b is stored and b -> a is not succeeds,
\* and both edges are stored afterwards
C21_ReverseStep ==
    (last'.op = "add_related_product"
         /\ HasEdge(product_relations, last'.args[2], last'.args[1])
         /\ ~HasEdge(product_relations, last'.args[1], last'.args[2])) =>
        /\ Truthy(last'.result.value)
        /\ HasEdge(product_relations', last'.args[1], last'.args[2])
        /\ HasEdge(product_relations', last'.args[2], last'.args[1])

\* C21 as the specification states it, for stored products b: after every
\* successful add_related_product(a, b) the product b is listed by
\* get_related_products(a); the call adds the one edge a -> b and never
\* b -> a, the list of b is unchanged, and a later add_related_product(b, a)
\* succeeds.
C21_AsStated ==
    /\ []((AddedEdge /\ last.args[2] \in StoredIds(products)) =>
              \E r \in get_related_products(last.args[1]) :
                  r.related_product_id = last.args[2])
    /\ [][C21_OneEdgeStep /\ C21_ReverseStep]_vars

C21_ListedStep ==
    (last'.op = "add_related_product" /\ Truthy(last'.result.value)
         /\ last'.args[2] \in ActiveIds(products)) =>
        \E r \in RelatedRows(product_relations', products', last'.args[1]) :
            /\ r.id = last'.result.value
            /\ r.related_product_id = last'.args[2]

\* C21: a successful add_related_product(a, b) adds exactly the one edge
\* a -> b and never b -> a; b appears in get_related_products(a) when b is an
\* active product, and get_related_products(b) is unchanged; a later
\* add_related_product(b, a) succeeds and both edges are then stored.
C21_Directional == [][C21_OneEdgeStep /\ C21_ReverseStep /\ C21_ListedStep]_vars

\* add_related_product(2, 1) on the store with the seeded edge 1 -> 2: both
\* edges are stored, each product lists the other
C21_Witness ==
    /\ last = Call("add_related_product", <<2, 1>>, Returned(2))
    /\ HasEdge(product_relations, 1, 2)
    /\ HasEdge(product_relations, 2, 1)
    /\ Cardinality(product_relations) = 2
    /\ RelatedTargets(product_relations, products, 1) = {2}
    /\ RelatedTargets(product_relations, products, 2) = {1}

\* every id the products table ever held is at most sqlite_sequence.products
IdsAssigned == StoredIds(products) \subseteq 1..sqlite_sequence.products

C22_MonotoneStep == sqlite_sequence'.products >= sqlite_sequence.products

C22_InsertStep ==
    (last'.op = "save_product" /\ ~Truthy(last'.args[1].id)
         /\ last'.result.raised = "") =>
        LET id == last'.result.value
        IN  /\ id \notin 1..sqlite_sequence.products
            /\ id \notin StoredIds(products)
            /\ products' = products \cup {ProductRow(id, last'.args[1])}
            /\ Cardinality(products') = Cardinality(products) + 1
            /\ \A s \in sales_history' : s.product_id # id
            /\ \A r \in product_relations' :
                   /\ r.main_product_id \in 1..sqlite_sequence.products
                          => r.main_product_id # id
                   /\ r.related_product_id \in 1..sqlite_sequence.products
                          => r.related_product_id # id

\* C22: save_product on a product with id 0 inserts exactly one row and
\* returns an id that is larger than every id the products table ever held:
\* it differs from the id of every stored and of every deleted product, so
\* no stored sale and no edge that points at a deleted product refers to it.
C22_FreshIds == [](IdsAssigned) /\ [][C22_MonotoneStep /\ C22_InsertStep]_vars

\* product 2, the last one assigned, was deleted with its seed sale stored;
\* the product saved next has id 3
C22_Witness ==
    /\ calls = 2
    /\ last.op = "save_product"
    /\ last.args[1].id = 0
    /\ last.result = Returned(SeedRows + 1)
    /\ StoredIds(products) = {1, SeedRows + 1}
    /\ \E s \in sales_history : s.product_id = SeedRows

C23_UpdateStep ==
    (last'.op = "save_product" /\ Truthy(last'.args[1].id)) =>
        LET product == last'.args[1]
        IN  IF product.id \notin StoredIds(products)
            THEN /\ UNCHANGED tables
                 /\ last'.result = Returned(product.id)
            ELSE IF last'.result.raised # ""
            THEN UNCHANGED tables
            ELSE /\ last'.result = Returned(product.id)
                 /\ UNCHANGED <<manufacturers, product_relations, sales_history,
                                sqlite_sequence>>
                 /\ \A x \in products : x.id # product.id => x \in products'
                 /\ StoredIds(products') = StoredIds(products)
                 /\ Cardinality(products') = Cardinality(products)
                 /\ \A x \in products' :
                        x.id = product.id =>
                            /\ x.name = product.name
                            /\ x.price = ToFloat(product.price)
                            /\ x.manufacturer_id = product.manufacturer_id
                            /\ x.is_active = product.is_active

\* C23: save_product on a product with a non-zero id that matches no stored
\* product creates no row, leaves every table unchanged and returns that id
\* without an error; save_product on a stored id writes the given fields to
\* that product's row and leaves the other products, the edges, the sales
\* and the manufacturers unchanged.
C23_UpdateOnly == [][C23_UpdateStep]_vars

\* save_product of a product with id 3 on the seeded store, where no product
\* 3 was ever stored: the id is returned and the seed products are all there is
C23_Witness ==
    /\ last.op = "save_product"
    /\ last.args[1].id = SeedRows + 1
    /\ last.args[1].name = "Test"
    /\ last.result = Returned(SeedRows + 1)
    /\ StoredIds(products) = 1..SeedRows
    /\ sqlite_sequence.products = SeedRows
    /\ get_product_by_id(SeedRows + 1) = {}

====
